---- MODULE Spec2Model ----
(***************************************************************************)
(* Verification model of the smart-dashboard core: the paper-trade ledger  *)
(* (utils/trade_persistence.py, app.py, dashboard/sections/paper_trade.py),*)
(* the live price engine (services/price_engine.py, app.py), the rule gate *)
(* (logic/evaluate_setup.py), the confidence scorer                        *)
(* (logic/trade_confidence.py), the decision combinator (logic/decision.py,*)
(* logic/risk.py) and the watchlist scanner                                *)
(* (logic/market_opportunity_scanner.py).                                  *)
(*                                                                         *)
(* Money is counted in thousandths of a rupee, so that round(x, 2) is a    *)
(* real operation (Round2).  Wall-clock seconds are counted in half        *)
(* seconds, so that the 1.5 s throttle is the integer 3.                   *)
(***************************************************************************)
EXTENDS Integers, Sequences, FiniteSets, TLC

\* ------------------------------------------------------------------------
\* Bounds of the model
\* ------------------------------------------------------------------------
Sessions == {"s1", "s2"}
Symbols == {"INFY", "TCS"}
Sides == {"BUY", "SELL"}
\* quotes, in thousandths of a rupee (100.00 and 105.00)
Prices == {100000, 105000}
Qtys == {10}
\* rows appended to one day's file
MaxRows == 2
\* rows appended to the file before two concurrent sessions stop opening
MaxConcRows == 1
\* milliseconds of the trade-id clock
MaxClockMs == 2

\* ------------------------------------------------------------------------
\* Values
\* ------------------------------------------------------------------------
\* Python None in a number-typed place ("Exit": None, last_price_metric)
NoneVal == -1
\* float NaN: what pandas reads back from an empty CSV cell
NaNVal == -2
\* a cell holding a column name (a header line read as a data line)
NonNumeric == -3

PricesOrNone == Prices \cup {NoneVal}

\* round(x, 2) on thousandths: round half to even at the second decimal
Round2(m) ==
  LET r == m % 10
      base == m - r
  IN  IF r < 5 THEN base
      ELSE IF r > 5 THEN base + 10
      ELSE IF (base \div 10) % 2 = 0 THEN base ELSE base + 10

VARIABLES
  csvExists,          \* os.path.exists(get_trade_file())
  csv,                \* the data lines of today's file, in file order
  clockMs,            \* int(time.time() * 1000), relative to the day's start
  stock,              \* st.session_state.last_stock / stock, per session
  last_price_metric,  \* st.session_state.last_price_metric, per session
  history,            \* st.session_state.history, per session
  trades,             \* st.session_state.trades, per session
  pnl,                \* st.session_state.pnl, per session
  pc,                 \* position of the session's running handler
  pend,               \* locals of the running handler
  genAt               \* clockMs of the session's last generate_trade_id

ledgerVars == <<csvExists, csv, clockMs, stock, last_price_metric, history,
                trades, pnl, pc, pend, genAt>>

VARIABLES
  now,                \* time.time(), in half seconds
  impl,               \* which get_live_price_fast the session runs
  slot,               \* st.session_state["_fast_price_" + symbol], per session
  ppc,                \* "idle", or "fetch" while the poll's requests are out
  call,               \* locals of the poll in flight: symbol and its `now`
  ret,                \* what the session's last poll returned
  lastFetch           \* when the session last started a fetch for a symbol

priceVars == <<now, impl, slot, ppc, call, ret, lastFetch>>

VARIABLES
  price_ts,           \* the slot's "ts" handed to price_freshness_label
  at,                 \* time.time() inside price_freshness_label
  fresh               \* what price_freshness_label returned last

freshVars == <<price_ts, at, fresh>>

VARIABLES
  setup,              \* arguments of evaluate_trade_setup
  verdict             \* what evaluate_trade_setup returned for them

gateVars == <<setup, verdict>>

VARIABLES
  cin,                \* arguments of calculate_trade_confidence
  cout,               \* the (score, reasons) it returned for them
  lscore,             \* argument of confidence_label
  llabel              \* the labels returned for it

confVars == <<cin, cout, lscore, llabel>>

VARIABLES
  din,                \* arguments of trade_decision
  dout                \* the (allowed, reason) it returned for them

decVars == <<din, dout>>

VARIABLES
  scanIn,             \* what the fetches of a scan give, and get_pcr()
  scanOut             \* the list run_market_opportunity_scanner returned

scanVars == <<scanIn, scanOut>>

VARIABLES
  dayFile,            \* a day's CSV file as load_day_trades finds it
  loaded              \* the list load_day_trades returned for it

loadVars == <<dayFile, loaded>>

logicVars == <<confVars, decVars, scanVars, loadVars>>

vars == <<ledgerVars, priceVars, freshVars, gateVars, logicVars>>

\* what a step of one component leaves alone
LedgerOnly == UNCHANGED <<priceVars, freshVars, gateVars, logicVars>>
PriceOnly == UNCHANGED <<ledgerVars, freshVars, gateVars, logicVars>>
FreshOnly == UNCHANGED <<ledgerVars, priceVars, gateVars, logicVars>>
GateOnly == UNCHANGED <<ledgerVars, priceVars, freshVars, logicVars>>
ConfOnly ==
  UNCHANGED <<ledgerVars, priceVars, freshVars, gateVars, decVars, scanVars,
              loadVars>>
DecOnly ==
  UNCHANGED <<ledgerVars, priceVars, freshVars, gateVars, confVars, scanVars,
              loadVars>>
ScanOnly ==
  UNCHANGED <<ledgerVars, priceVars, freshVars, gateVars, confVars, decVars,
              loadVars>>

\* ------------------------------------------------------------------------
\* The day's CSV file
\* ------------------------------------------------------------------------
\* DataFrame([row]).to_csv: None is written as an empty cell
ToCsvCell(v) == IF v = NoneVal THEN NaNVal ELSE v

ToCsvRow(row) == [row EXCEPT !.exit = ToCsvCell(row.exit)]

\* the header line, when it lands in the file as a data line
HeaderLine ==
  [id |-> NonNumeric, sym |-> "Symbol", side |-> "Side", entry |-> NonNumeric,
   exit |-> NonNumeric, qty |-> NonNumeric, pnl |-> NonNumeric,
   status |-> "Status"]

\* a column that holds a non-numeric cell is read as text in every row
TextColumns(lines) == \E i \in DOMAIN lines : lines[i].status = "Status"

load_day_trades == IF csvExists THEN csv ELSE <<>>

generate_trade_id == clockMs

ClosedNumeric(h) ==
  LET isClosed(t) == t.status = "CLOSED" /\ ~TextColumns(h)
  IN  SelectSeq(h, isClosed)

RECURSIVE SumPnL(_)
SumPnL(h) == IF h = <<>> THEN 0 ELSE Head(h).pnl + SumPnL(Tail(h))

\* the trade count taken over every row of the history, OPEN ones included
refresh_risk_trades_all_rows(h) == Len(h)

\* refresh_risk_from_history: (trades, pnl) from the session's history
refresh_risk_trades(h) == Len(ClosedNumeric(h))
refresh_risk_pnl(h) == SumPnL(ClosedNumeric(h))

OpenFor(lines, y) ==
  LET isOpen(t) == t.sym = y /\ t.status = "OPEN"
  IN  SelectSeq(lines, isOpen)

OpenRows(lines) ==
  LET isOpen(t) == t.status = "OPEN"
  IN  SelectSeq(lines, isOpen)

\* locals of a handler between two file accesses; closedAtCall records
\* whether the row was already CLOSED on disk when update_trade_in_csv was
\* called, price_sym the symbol the handler's exit price was polled for,
\* pressed the (allowed, ltp) a Simulate button saw when it was pressed and
\* whether it went on to append
NoPend ==
  [row |-> HeaderLine, header |-> FALSE, df |-> <<>>, found |-> FALSE,
   trade_id |-> NoneVal, closedAtCall |-> FALSE, price_sym |-> "none",
   pressed |-> [allowed |-> FALSE, priced |-> FALSE, outcome |-> "none"]]

trade_row(id, y, side, ltp, qty) ==
  [id |-> id, sym |-> y, side |-> side, entry |-> Round2(ltp),
   exit |-> NoneVal, qty |-> qty, pnl |-> 0, status |-> "OPEN"]

\* PnL of the 'Close Paper Position' button and of the section's table
pnl_by_side(side, entry, price, qty) ==
  IF side = "BUY" THEN Round2((price - entry) * qty)
  ELSE Round2((entry - price) * qty)

\* PnL of app.py's inline Exit button
pnl_inline(side, entry, price, qty) == Round2((price - entry) * qty)

\* update_trade_in_csv, in memory: df.loc[mask, k] = v for the four keys
apply_updates(df, trade_id, exit, p) ==
  [i \in DOMAIN df |->
     IF df[i].id = trade_id
     THEN [df[i] EXCEPT !.exit = exit, !.pnl = p, !.status = "CLOSED"]
     ELSE df[i]]

HasId(df, trade_id) == \E i \in DOMAIN df : df[i].id = trade_id

\* ------------------------------------------------------------------------
\* Ledger: initial state
\* ------------------------------------------------------------------------
NoStock == "none"

LedgerInit ==
  /\ csvExists = FALSE
  /\ csv = <<>>
  /\ clockMs = 0
  /\ stock = [s \in Sessions |-> NoStock]
  /\ last_price_metric = [s \in Sessions |-> NoneVal]
  /\ history = [s \in Sessions |-> <<>>]
  /\ trades = [s \in Sessions |-> 0]
  /\ pnl = [s \in Sessions |-> 0]
  /\ pc = [s \in Sessions |-> "idle"]
  /\ pend = [s \in Sessions |-> NoPend]
  /\ genAt = [s \in Sessions |-> -1]

\* ------------------------------------------------------------------------
\* Ledger: one script run's top (app.py 747-752, 995-998, 1402, 543-554)
\* ------------------------------------------------------------------------
Rerun(s, y, p) ==
  /\ pc[s] = "idle"
  /\ LET h == IF history[s] = <<>> THEN load_day_trades ELSE history[s]
         isClosed(t) == t.status = "CLOSED"
         closed == SelectSeq(h, isClosed)
         raises == history[s] = <<>> /\ closed # <<>> /\ TextColumns(h)
     IN  /\ history' = [history EXCEPT ![s] = h]
         /\ trades' = [trades EXCEPT ![s] =
                         IF history[s] = <<>> THEN Len(closed) ELSE @]
         /\ pnl' = [pnl EXCEPT ![s] =
                      IF history[s] = <<>> /\ ~raises THEN SumPnL(closed)
                      ELSE @]
         /\ stock' = [stock EXCEPT ![s] = IF raises THEN @ ELSE y]
         /\ last_price_metric' = [last_price_metric EXCEPT ![s] =
                                    IF raises THEN @
                                    ELSE IF p # NoneVal THEN p
                                    ELSE IF stock[s] # y THEN NoneVal
                                    ELSE @]
  /\ UNCHANGED <<csvExists, csv, clockMs, pc, pend, genAt>>
  /\ LedgerOnly

\* ------------------------------------------------------------------------
\* Ledger: opening a paper trade
\* ------------------------------------------------------------------------
\* what a Simulate button saw when it was pressed
Pressed(s, allowed, outcome) ==
  [allowed |-> allowed, priced |-> last_price_metric[s] # NoneVal,
   outcome |-> outcome]

\* append_trade up to os.path.exists(path)
append_trade_begin(s, row, allowed) ==
  /\ pend' = [pend EXCEPT ![s] =
                [NoPend EXCEPT !.row = row,
                               !.header = ~csvExists,
                               !.pressed = Pressed(s, allowed, "append")]]
  /\ pc' = [pc EXCEPT ![s] = "append"]
  /\ genAt' = [genAt EXCEPT ![s] = row.id]

\* the branches of a Simulate button that end in st.error or st.warning
refuse_trade(s, allowed) ==
  /\ pend' = [pend EXCEPT ![s] =
                [NoPend EXCEPT !.pressed = Pressed(s, allowed, "refused")]]
  /\ UNCHANGED <<pc, genAt>>

\* the section's button without the test of `allowed`
OpenSection_unchecked(s, allowed, side, qty, N) ==
  /\ pc[s] = "idle"
  /\ stock[s] \in Symbols
  /\ clockMs > genAt[s]
  /\ Len(csv) < N
  /\ IF last_price_metric[s] # NoneVal
     THEN append_trade_begin(s, trade_row(generate_trade_id, stock[s], side,
                                          last_price_metric[s], qty),
                             allowed)
     ELSE refuse_trade(s, allowed)
  /\ UNCHANGED <<csvExists, csv, clockMs, stock, last_price_metric, history,
                 trades, pnl>>
  /\ LedgerOnly

\* app.py: the main page's Simulate BUY/SELL button
OpenMain(s, allowed, side, qty, N) ==
  /\ pc[s] = "idle"
  /\ stock[s] \in Symbols
  /\ clockMs > genAt[s]
  /\ Len(csv) < N
  /\ IF /\ allowed
        /\ last_price_metric[s] # NoneVal
        /\ OpenFor(load_day_trades, stock[s]) = <<>>
     THEN append_trade_begin(s, trade_row(generate_trade_id, stock[s], side,
                                          last_price_metric[s], qty),
                             allowed)
     ELSE refuse_trade(s, allowed)
  /\ UNCHANGED <<csvExists, csv, clockMs, stock, last_price_metric, history,
                 trades, pnl>>
  /\ LedgerOnly

\* paper_trade.py: the section's Simulate BUY/SELL button
OpenSection(s, allowed, side, qty, N) ==
  /\ pc[s] = "idle"
  /\ stock[s] \in Symbols
  /\ clockMs > genAt[s]
  /\ Len(csv) < N
  /\ IF allowed /\ last_price_metric[s] # NoneVal
     THEN append_trade_begin(s, trade_row(generate_trade_id, stock[s], side,
                                          last_price_metric[s], qty),
                             allowed)
     ELSE refuse_trade(s, allowed)
  /\ UNCHANGED <<csvExists, csv, clockMs, stock, last_price_metric, history,
                 trades, pnl>>
  /\ LedgerOnly

\* append_trade: df.to_csv(path, mode="a", header=header)
AppendWrite(s) ==
  /\ pc[s] = "append"
  /\ csv' = csv
            \o (IF pend[s].header /\ csvExists THEN <<HeaderLine>> ELSE <<>>)
            \o <<ToCsvRow(pend[s].row)>>
  /\ csvExists' = TRUE
  /\ pc' = [pc EXCEPT ![s] = "sync"]
  /\ UNCHANGED <<clockMs, stock, last_price_metric, history, trades, pnl,
                 pend, genAt>>
  /\ LedgerOnly

\* history = load_day_trades(); refresh_risk_from_history()
Sync(s) ==
  /\ pc[s] = "sync"
  /\ history' = [history EXCEPT ![s] = load_day_trades]
  /\ trades' = [trades EXCEPT ![s] = refresh_risk_trades(load_day_trades)]
  /\ pnl' = [pnl EXCEPT ![s] = refresh_risk_pnl(load_day_trades)]
  /\ pc' = [pc EXCEPT ![s] = "idle"]
  /\ pend' = [pend EXCEPT ![s] = NoPend]
  /\ UNCHANGED <<csvExists, csv, clockMs, stock, last_price_metric, genAt>>
  /\ LedgerOnly

\* ------------------------------------------------------------------------
\* Ledger: closing a paper trade
\* ------------------------------------------------------------------------
\* update_trade_in_csv up to the in-memory patch of the frame it read
update_trade_in_csv_begin(s, trade_id, exit, p, price_sym) ==
  /\ pend' = [pend EXCEPT ![s] =
                [NoPend EXCEPT
                   !.price_sym = price_sym,
                   !.df = apply_updates(load_day_trades, trade_id, exit, p),
                   !.found = csvExists /\ HasId(csv, trade_id),
                   !.trade_id = trade_id,
                   !.closedAtCall =
                     \E i \in DOMAIN load_day_trades :
                       /\ load_day_trades[i].id = trade_id
                       /\ load_day_trades[i].status = "CLOSED"]]
  /\ pc' = [pc EXCEPT ![s] = "update"]

\* app.py: the 'Close Paper Position' button
CloseMain(s) ==
  /\ pc[s] = "idle"
  /\ stock[s] \in Symbols
  /\ LET open_trades == OpenFor(load_day_trades, stock[s])
         ltp == last_price_metric[s]
     IN  /\ open_trades # <<>>
         /\ ltp # NoneVal
         /\ ~TextColumns(load_day_trades)
         /\ LET t == open_trades[Len(open_trades)]
            IN  update_trade_in_csv_begin(
                  s, t.id, ltp, pnl_by_side(t.side, t.entry, ltp, t.qty),
                  stock[s])
  /\ UNCHANGED <<csvExists, csv, clockMs, stock, last_price_metric, history,
                 trades, pnl, genAt>>
  /\ LedgerOnly

\* app.py: the per-row inline Exit button; p is what
\* get_live_price_fast(t["Symbol"]) returned in this run
InlineExitApp(s, i, p) ==
  /\ pc[s] = "idle"
  /\ stock[s] \in Symbols
  /\ LET open_trades == OpenRows(load_day_trades)
     IN  /\ i \in DOMAIN open_trades
         /\ p # NoneVal
         /\ ~TextColumns(load_day_trades)
         /\ LET t == open_trades[i]
            IN  update_trade_in_csv_begin(
                  s, t.id, p, pnl_inline(t.side, t.entry, p, t.qty), t.sym)
  /\ UNCHANGED <<csvExists, csv, clockMs, stock, last_price_metric, history,
                 trades, pnl, genAt>>
  /\ LedgerOnly

\* paper_trade.py: the section's inline Exit button
InlineExitSection(s, i) ==
  /\ pc[s] = "idle"
  /\ stock[s] \in Symbols
  /\ LET open_trades == OpenRows(history[s])
         trade_price == last_price_metric[s]
     IN  /\ i \in DOMAIN open_trades
         /\ trade_price # NoneVal
         /\ ~TextColumns(history[s])
         /\ LET t == open_trades[i]
            IN  update_trade_in_csv_begin(
                  s, t.id, trade_price,
                  pnl_by_side(t.side, t.entry, trade_price, t.qty), stock[s])
  /\ UNCHANGED <<csvExists, csv, clockMs, stock, last_price_metric, history,
                 trades, pnl, genAt>>
  /\ LedgerOnly

\* update_trade_in_csv called by itself, with any trade id and updates
UpdateCall(s, trade_id, exit, p) ==
  /\ pc[s] = "idle"
  /\ update_trade_in_csv_begin(s, trade_id, exit, p, NoStock)
  /\ UNCHANGED <<csvExists, csv, clockMs, stock, last_price_metric, history,
                 trades, pnl, genAt>>
  /\ LedgerOnly

\* update_trade_in_csv that writes the frame back whatever the mask found
UpdateWrite_unmasked(s) ==
  /\ pc[s] = "update"
  /\ csv' = pend[s].df
  /\ csvExists' = TRUE
  /\ pc' = [pc EXCEPT ![s] = "sync"]
  /\ UNCHANGED <<clockMs, stock, last_price_metric, history, trades, pnl,
                 pend, genAt>>
  /\ LedgerOnly

\* update_trade_in_csv: df.to_csv(path, index=False)
UpdateWrite(s) ==
  /\ pc[s] = "update"
  /\ csv' = IF pend[s].found THEN pend[s].df ELSE csv
  /\ pc' = [pc EXCEPT ![s] = "sync"]
  /\ UNCHANGED <<csvExists, clockMs, stock, last_price_metric, history,
                 trades, pnl, pend, genAt>>
  /\ LedgerOnly

\* the millisecond clock behind generate_trade_id
TickMs ==
  /\ clockMs < MaxClockMs
  /\ \E s \in Sessions : genAt[s] = clockMs
  /\ clockMs' = clockMs + 1
  /\ UNCHANGED <<csvExists, csv, stock, last_price_metric, history, trades,
                 pnl, pc, pend, genAt>>
  /\ LedgerOnly

\* the steps of the sessions in S, on the symbols Y and the sides D, opening
\* trades while the file holds fewer than N lines
LedgerStep(S, Y, D, N) ==
  \/ \E s \in S, y \in Y, p \in PricesOrNone : Rerun(s, y, p)
  \/ \E s \in S, a \in BOOLEAN, d \in D, q \in Qtys : OpenMain(s, a, d, q, N)
  \/ \E s \in S, a \in BOOLEAN, d \in D, q \in Qtys : OpenSection(s, a, d, q, N)
  \/ \E s \in S : AppendWrite(s)
  \/ \E s \in S : Sync(s)
  \/ \E s \in S : CloseMain(s)
  \/ \E s \in S, i \in 1..(N + 2), p \in PricesOrNone :
       InlineExitApp(s, i, p)
  \/ \E s \in S, i \in 1..(N + 2) : InlineExitSection(s, i)
  \/ \E s \in S : UpdateWrite(s)
  \/ TickMs

\* ------------------------------------------------------------------------
\* Ledger: properties
\* ------------------------------------------------------------------------
\* the lines of the file that are trade records
IsTrade(line) == line.status \in {"OPEN", "CLOSED"}

\* C1: the day's file never holds two OPEN rows for one symbol, whichever
\* Simulate button opened them
OneOpenPerSymbol == \A y \in Symbols : Len(OpenFor(csv, y)) <= 1

\* C2: every CLOSED row carries PnL = (exit - entry) * qty for a BUY and
\* (entry - exit) * qty for a SELL, whichever exit button closed it
ClosedPnLFollowsSide ==
  \A i \in DOMAIN csv :
    csv[i].status = "CLOSED" =>
      csv[i].pnl = IF csv[i].side = "BUY"
                   THEN (csv[i].exit - csv[i].entry) * csv[i].qty
                   ELSE (csv[i].entry - csv[i].exit) * csv[i].qty

\* C3: update_trade_in_csv called for a trade that is already CLOSED on disk
\* leaves the file as it is
CloseOfClosedIsNoOp ==
  [][\A s \in Sessions :
       (pc[s] = "update" /\ pc'[s] # "update" /\ pend[s].closedAtCall)
         => csv' = csv]_vars

\* C4: no step removes a trade from the file, reopens a CLOSED trade, or adds
\* a trade that is not OPEN
TradeLifecycle ==
  [][/\ \A i \in DOMAIN csv :
          IsTrade(csv[i]) =>
            /\ i \in DOMAIN csv'
            /\ csv'[i].id = csv[i].id
            /\ csv[i].status = "CLOSED" => csv'[i].status = "CLOSED"
     /\ \A i \in DOMAIN csv' :
          (i \notin DOMAIN csv /\ IsTrade(csv'[i])) => csv'[i].status = "OPEN"
    ]_vars

\* C5: each write acts on the file as it is at the write: an append keeps
\* every current line and ends the file with its one row, an update keeps the
\* number of lines and changes only the rows of its trade id, so no row
\* written by another session is lost or replaced by a stale copy
WritesAreSerialized ==
  [][\A s \in Sessions :
       /\ (pc[s] = "append" /\ pc'[s] # "append")
            => /\ Len(csv') > Len(csv)
               /\ SubSeq(csv', 1, Len(csv)) = csv
               /\ csv'[Len(csv')] = ToCsvRow(pend[s].row)
       /\ (pc[s] = "update" /\ pc'[s] # "update")
            => /\ Len(csv') = Len(csv)
               /\ \A i \in DOMAIN csv :
                    csv[i].id # pend[s].trade_id => csv'[i] = csv[i]
    ]_vars

\* C24: when an append is followed by load_day_trades, the list holds a
\* record with the appended trade id whose every field is the value that was
\* written, the empty exit price still None
AppendRoundTrip ==
  [][\A s \in Sessions :
       (pc[s] = "sync" /\ pc'[s] = "idle" /\ pend[s].row.status = "OPEN")
         => \E i \in DOMAIN history'[s] : history'[s][i] = pend[s].row
    ]_vars

\* C25: no two trade rows of the day's file carry the same trade id
TradeIdsUnique ==
  \A i \in DOMAIN csv, j \in DOMAIN csv :
    (i # j /\ IsTrade(csv[i]) /\ IsTrade(csv[j])) => csv[i].id # csv[j].id

\* C26: update_trade_in_csv with a trade id the day's file does not hold, or
\* with no file, leaves the file as it is: the same lines, and no file where
\* there was none
AbsentIdIsNoOp ==
  [][\A s \in Sessions :
       (/\ pc[s] = "update"
        /\ pc'[s] = "sync"
        /\ ~csvExists \/ ~HasId(csv, pend[s].trade_id))
         => csv' = csv /\ csvExists' = csvExists
    ]_vars

\* update_trade_in_csv returned for an id that the file, two rows long, does
\* not hold
AbsentIdWitness ==
  \E s \in Sessions :
    /\ pc[s] = "sync"
    /\ pend[s].trade_id # NoneVal
    /\ csvExists
    /\ Len(csv) = 2
    /\ ~HasId(csv, pend[s].trade_id)
    /\ \A i \in DOMAIN csv : csv[i].status = "OPEN"

\* C29: when an open or a close handler has finished, the session's trade
\* count is the number of CLOSED rows of the day's file that hold a numeric
\* PnL and its cumulative PnL is the sum of their PnL; OPEN rows count for
\* neither
RiskCountersMatchLedger ==
  [][\A s \in Sessions :
       (pc[s] = "sync" /\ pc'[s] = "idle")
         => LET closed == {i \in DOMAIN csv' : /\ csv'[i].status = "CLOSED"
                                                /\ ~TextColumns(csv')}
                RECURSIVE Total(_)
                Total(I) ==
                  IF I = {} THEN 0
                  ELSE LET i == CHOOSE j \in I : TRUE
                       IN  csv'[i].pnl + Total(I \ {i})
            IN  /\ trades'[s] = Cardinality(closed)
                /\ pnl'[s] = Total(closed)
    ]_vars

\* a session at rest after a close at a loss, one trade still OPEN in the
\* file: one trade counted, the loss as the cumulative PnL
RiskCountersWitness ==
  \E s \in Sessions :
    /\ pc[s] = "idle"
    /\ Len(csv) = 2
    /\ \E i \in DOMAIN csv : csv[i].status = "OPEN"
    /\ \E i \in DOMAIN csv : csv[i].status = "CLOSED" /\ csv[i].pnl < 0
    /\ trades[s] = 1
    /\ pnl[s] < 0

\* C30: a row is appended only after a press of Simulate that saw the setup
\* allowed and a last polled price; a press that saw the setup blocked or no
\* price starts no append and leaves the file and the session's history as
\* they were
SimulateNeedsAllowedAndPrice ==
  [][\A s \in Sessions :
       /\ (pc[s] = "append" /\ pc'[s] = "sync")
            => /\ pend[s].pressed.allowed
               /\ pend[s].pressed.priced
               /\ csv'[Len(csv')] = ToCsvRow(pend[s].row)
       /\ (/\ pc[s] = "idle"
           /\ pend'[s].pressed # pend[s].pressed
           /\ pend'[s].pressed.outcome # "none"
           /\ ~pend'[s].pressed.allowed \/ ~pend'[s].pressed.priced)
            => /\ pend'[s].pressed.outcome = "refused"
               /\ pc'[s] = "idle"
               /\ csv' = csv
               /\ csvExists' = csvExists
               /\ history' = history
       /\ (Len(csv') > Len(csv) /\ pc'[s] # pc[s]) => pc[s] = "append"
    ]_vars

\* a session whose last press of Simulate saw a price and a blocked setup:
\* the press was refused and the file does not exist
SimulateBlockedWitness ==
  \E s \in Sessions :
    /\ pc[s] = "idle"
    /\ pend[s].pressed = [allowed |-> FALSE, priced |-> TRUE,
                          outcome |-> "refused"]
    /\ ~csvExists

\* C27: the exit price a close hands to update_trade_in_csv was polled for
\* the symbol of the trade that is closed
ExitPriceOfOwnSymbol ==
  [][\A s \in Sessions :
       (pc[s] = "idle" /\ pc'[s] = "update")
         => \A i \in DOMAIN csv :
              (IsTrade(csv[i]) /\ csv[i].id = pend'[s].trade_id)
                => pend'[s].price_sym = csv[i].sym
    ]_vars

\* ------------------------------------------------------------------------
\* Live price engine (services/price_engine.py, app.py 474-554,
\* services/prices.py)
\* ------------------------------------------------------------------------
\* time.time() when the model starts, in half seconds; any instant of this
\* century is far above the freshness thresholds
StartTime == 40
\* half seconds the model lets pass
MaxTicks == 4
\* min_interval=1.5
MinInterval == 3
\* the shared service caches a payload for 2 seconds
SharedTtl == 4

NoSrc == "None"

\* st.session_state[key] as created on the first request for the symbol
NewSlot == [ts |-> NoneVal, poll_ts |-> 0, price |-> NoneVal, src |-> NoSrc]

\* live_price with the two exchanges asked in the other order
live_price_yahoo_first(nse, yahoo) ==
  IF yahoo # NoneVal THEN [price |-> yahoo, src |-> "Yahoo"]
  ELSE IF nse # NoneVal /\ nse # 0 THEN [price |-> nse, src |-> "NSE"]
  ELSE [price |-> NoneVal, src |-> NoSrc]

\* live_price: NSE first, Yahoo when NSE gave nothing (or a zero price)
live_price(nse, yahoo) ==
  IF nse # NoneVal /\ nse # 0 THEN [price |-> nse, src |-> "NSE"]
  ELSE IF yahoo # NoneVal THEN [price |-> yahoo, src |-> "Yahoo"]
  ELSE [price |-> NoneVal, src |-> NoSrc]

\* answers of GET /price/{symbol}: status, payload price, and the age of the
\* payload's timestamp when the answer arrives (NoneVal: no timestamp)
SharedAnswers ==
  [status : {"ok"}, price : PricesOrNone, age : {0, SharedTtl, NoneVal}]
  \cup [status : {"http_error", "timeout", "malformed"}, price : {NoneVal},
        age : {NoneVal}]

\* the 200 branch of both versions, the answer arriving at time t
shared_ok(sl, ans, t) ==
  [sl EXCEPT !.price = ans.price,
             !.src = "SHARED_LIVE",
             !.ts = IF ans.age # NoneVal THEN t - ans.age ELSE @]

\* the direct fallback of both versions, finished at time t
direct_fallback(sl, direct, t) ==
  [sl EXCEPT !.price = direct.price, !.src = direct.src, !.ts = t]

\* app.py get_live_price_fast, the body of the throttle branch
fast_app(sl, called, t, ans, direct) ==
  LET fetched == IF ans.status = "ok" THEN shared_ok(sl, ans, t)
                 ELSE direct_fallback(sl, direct, t)
  IN  [fetched EXCEPT !.poll_ts = called]

\* services/price_engine.py get_live_price_fast, the body of the throttle
\* branch
fast_engine(sl, called, t, ans, direct) ==
  LET shared == IF ans.status = "ok" THEN shared_ok(sl, ans, t) ELSE sl
      fetched == IF shared.price = NoneVal
                 THEN direct_fallback(shared, direct, t)
                 ELSE shared
  IN  [fetched EXCEPT !.poll_ts = called]

\* the requests one fetch makes, in order: the shared service, then
\* live_price (NSE, and Yahoo when NSE gave nothing) where the version falls
\* back to it
fetch_calls(version, sl, ans, nse) ==
  LET fallback ==
        IF version = "app" THEN ans.status # "ok"
        ELSE (IF ans.status = "ok" THEN ans.price ELSE sl.price) = NoneVal
  IN  <<"shared">>
      \o (IF fallback
          THEN <<"nse">>
               \o (IF nse # NoneVal /\ nse # 0 THEN <<>> ELSE <<"yahoo">>)
          ELSE <<>>)

\* now - slot["poll_ts"] >= min_interval
\* the throttle with the comparison made strict
throttle_open_strict(sl, t) == t - sl.poll_ts > MinInterval

throttle_open(sl, t) == t - sl.poll_ts >= MinInterval

NoCall == [sym |-> "none", now |-> 0]
\* what a poll gave back, with the requests it made and their answers
NoRet ==
  [sym |-> "none", price |-> NoneVal, src |-> NoSrc, fetched |-> FALSE,
   calls |-> <<>>,
   shared |-> [status |-> "none", price |-> NoneVal, age |-> NoneVal],
   nse |-> NoneVal, yahoo |-> NoneVal]

PriceIdle ==
  /\ now = StartTime
  /\ slot = [s \in Sessions |-> [y \in Symbols |-> NewSlot]]
  /\ ppc = [s \in Sessions |-> "idle"]
  /\ call = [s \in Sessions |-> NoCall]
  /\ ret = [s \in Sessions |-> NoRet]
  /\ lastFetch = [s \in Sessions |-> [y \in Symbols |-> NoneVal]]

\* the sessions in S run either version of get_live_price_fast
PriceInit(S) ==
  /\ PriceIdle
  /\ impl \in [Sessions -> {"app", "engine"}]
  /\ \A s \in Sessions \ S : impl[s] = "app"

\* get_live_price_fast up to the request: the slot is looked up, `now` is
\* read and the throttle is tested
PollBegin(s, y) ==
  /\ ppc[s] = "idle"
  /\ IF throttle_open(slot[s][y], now)
     THEN /\ ppc' = [ppc EXCEPT ![s] = "fetch"]
          /\ call' = [call EXCEPT ![s] = [sym |-> y, now |-> now]]
          /\ lastFetch' = [lastFetch EXCEPT ![s][y] = now]
          /\ UNCHANGED ret
     ELSE /\ ret' = [ret EXCEPT ![s] =
                       [NoRet EXCEPT !.sym = y, !.price = slot[s][y].price,
                                     !.src = slot[s][y].src]]
          /\ UNCHANGED <<ppc, call, lastFetch>>
  /\ UNCHANGED <<now, impl, slot>>
  /\ PriceOnly

\* the requests come back (or fail), the slot is written and returned
PollFinish(s, ans, nse, yahoo) ==
  /\ ppc[s] = "fetch"
  /\ LET y == call[s].sym
         direct == live_price(nse, yahoo)
         sl == IF impl[s] = "app"
               THEN fast_app(slot[s][y], call[s].now, now, ans, direct)
               ELSE fast_engine(slot[s][y], call[s].now, now, ans, direct)
         calls == fetch_calls(impl[s], slot[s][y], ans, nse)
     IN  /\ slot' = [slot EXCEPT ![s][y] = sl]
         /\ ret' = [ret EXCEPT ![s] =
                      [sym |-> y, price |-> sl.price, src |-> sl.src,
                       fetched |-> TRUE, calls |-> calls, shared |-> ans,
                       nse |-> IF Len(calls) >= 2 THEN nse ELSE NoneVal,
                       yahoo |-> IF Len(calls) >= 3 THEN yahoo ELSE NoneVal]]
  /\ ppc' = [ppc EXCEPT ![s] = "idle"]
  /\ call' = [call EXCEPT ![s] = NoCall]
  /\ UNCHANGED <<now, impl, lastFetch>>
  /\ PriceOnly

\* half a second passes
Tick ==
  /\ now < StartTime + MaxTicks
  /\ now' = now + 1
  /\ UNCHANGED <<impl, slot, ppc, call, ret, lastFetch>>
  /\ PriceOnly

\* the shared service is up and answers with a fresh quote
FreshAnswers == [status : {"ok"}, price : Prices, age : {0}]

\* the polls of the sessions in S for the symbols in Y, the shared service
\* answering from A and the exchanges from Q
PriceStep(S, Y, A, Q) ==
  \/ \E s \in S, y \in Y : PollBegin(s, y)
  \/ \E s \in S, nse \in Q \cup {0}, yahoo \in Q :
       \E ans \in A : PollFinish(s, ans, nse, yahoo)
  \/ Tick

\* ------------------------------------------------------------------------
\* Live price engine: properties
\* ------------------------------------------------------------------------
\* C6: poll_ts never decreases; a fetch starts only when min_interval has
\* passed since poll_ts and since the previous fetch of that slot; the slot
\* changes only when a fetch completes, which sets poll_ts to the time of the
\* call; a poll that returns without a fetch is inside the interval, returns
\* the cached price and leaves the slot as it was
PollThrottle ==
  [][\A s \in Sessions, y \in Symbols :
       /\ slot'[s][y].poll_ts >= slot[s][y].poll_ts
       /\ (ppc[s] = "idle" /\ ppc'[s] = "fetch" /\ call'[s].sym = y)
            => /\ now - slot[s][y].poll_ts >= MinInterval
               /\ \/ lastFetch[s][y] = NoneVal
                  \/ now - lastFetch[s][y] >= MinInterval
       /\ slot'[s][y] # slot[s][y]
            => /\ ppc[s] = "fetch"
               /\ call[s].sym = y
               /\ slot'[s][y].poll_ts = call[s].now
       /\ (ret'[s] # ret[s] /\ ~ret'[s].fetched /\ ret'[s].sym = y)
            => /\ now - slot[s][y].poll_ts < MinInterval
               /\ ret'[s].price = slot[s][y].price
               /\ slot'[s][y] = slot[s][y]
    ]_vars

\* a slot fetched twice, then polled inside the interval: the poll returned
\* the cached price
PollThrottleWitness ==
  \E s \in Sessions, y \in Symbols :
    /\ slot[s][y].poll_ts >= StartTime + MinInterval
    /\ ret[s].sym = y
    /\ ~ret[s].fetched
    /\ ret[s].price # NoneVal
    /\ now > slot[s][y].poll_ts

\* C7: no poll replaces a non-null slot price with null
KeepsLastGoodPrice ==
  [][\A s \in Sessions, y \in Symbols :
       slot[s][y].price # NoneVal => slot'[s][y].price # NoneVal]_vars

\* C28: a slot's origin timestamp changes only in a poll that returns a
\* price
OriginStampNeedsPrice ==
  [][\A s \in Sessions, y \in Symbols :
       slot'[s][y].ts # slot[s][y].ts
         => /\ ret'[s].fetched
            /\ ret'[s].sym = y
            /\ ret'[s].price # NoneVal
    ]_vars

\* C22: a fetch asks the shared service first and the exchanges only when
\* the shared service failed (timeout, non-200, malformed answer or no
\* price), NSE before Yahoo and Yahoo only when NSE gave no price; it returns
\* the shared service's price whenever that service gave one, NSE's price
\* whenever NSE was asked and gave one, and (no price, no source) when every
\* source asked failed; every fetch ends by returning such a pair
FetchFallbackOrder ==
  \A s \in Sessions :
    ret[s].fetched =>
      LET r == ret[s]
          n == Len(r.calls)
          shared_gave == r.shared.status = "ok" /\ r.shared.price # NoneVal
          nse_gave == r.nse # NoneVal /\ r.nse # 0
      IN  /\ n >= 1 /\ r.calls[1] = "shared"
          /\ n >= 2 => ~shared_gave /\ r.calls[2] = "nse"
          /\ n >= 3 => ~nse_gave /\ r.calls[3] = "yahoo"
          /\ shared_gave => r.price = r.shared.price /\ r.src = "SHARED_LIVE"
          /\ (n >= 2 /\ nse_gave) => r.price = r.nse /\ r.src = "NSE"
          /\ (n = 3 /\ r.yahoo # NoneVal)
               => r.price = r.yahoo /\ r.src = "Yahoo"
          /\ (n = 3 /\ r.yahoo = NoneVal)
               => r.price = NoneVal /\ r.src = NoSrc

\* the shared service timed out, NSE and Yahoo gave nothing, and the fetch
\* returned (no price, no source)
FetchFallbackWitness ==
  \E s \in Sessions :
    /\ ret[s].fetched
    /\ ret[s].shared.status = "timeout"
    /\ ret[s].calls = <<"shared", "nse", "yahoo">>
    /\ ret[s].price = NoneVal
    /\ ret[s].src = NoSrc

\* C8: two sessions never have a fetch for the same symbol in flight inside
\* one throttle window
OneFetchPerWindow ==
  \A s1 \in Sessions, s2 \in Sessions :
    (/\ s1 # s2
     /\ ppc[s1] = "fetch"
     /\ ppc[s2] = "fetch"
     /\ call[s1].sym = call[s2].sym)
      => \/ call[s1].now - call[s2].now >= MinInterval
         \/ call[s2].now - call[s1].now >= MinInterval

\* ------------------------------------------------------------------------
\* Freshness label (services/price_engine.py 81-92, app.py 528-541)
\* ------------------------------------------------------------------------
\* age <= 3 and age <= 15, in half seconds
LiveMaxAge == 6
NearLiveMaxAge == 30
\* half seconds the freshness model lets pass
MaxFreshTicks == 34

\* int(age): truncation toward zero, in whole seconds
IntSeconds(age) == IF age >= 0 THEN age \div 2 ELSE -((-age) \div 2)

\* the label with the LIVE threshold made strict
price_freshness_label_strict(ts, t) ==
  IF ts = NoneVal \/ ts = 0
  THEN [label |-> "DELAYED", emoji |-> "red", age |-> NoneVal]
  ELSE LET age == t - ts
       IN  IF age < LiveMaxAge
           THEN [label |-> "LIVE", emoji |-> "green", age |-> IntSeconds(age)]
           ELSE IF age <= NearLiveMaxAge
           THEN [label |-> "NEAR-LIVE", emoji |-> "yellow",
                 age |-> IntSeconds(age)]
           ELSE [label |-> "DELAYED", emoji |-> "red",
                 age |-> IntSeconds(age)]

price_freshness_label(ts, t) ==
  IF ts = NoneVal \/ ts = 0
  THEN [label |-> "DELAYED", emoji |-> "red", age |-> NoneVal]
  ELSE LET age == t - ts
       IN  IF age <= LiveMaxAge
           THEN [label |-> "LIVE", emoji |-> "green", age |-> IntSeconds(age)]
           ELSE IF age <= NearLiveMaxAge
           THEN [label |-> "NEAR-LIVE", emoji |-> "yellow",
                 age |-> IntSeconds(age)]
           ELSE [label |-> "DELAYED", emoji |-> "red",
                 age |-> IntSeconds(age)]

NoFresh == [label |-> "none", emoji |-> "none", age |-> NoneVal]

\* origin timestamps a slot can hold: none yet, the epoch, a quote of the
\* shared service, a quote stamped by a clock ahead of this one
OriginStamps ==
  {NoneVal, 0, StartTime, StartTime - SharedTtl, StartTime + 2}

FreshIdle ==
  /\ price_ts = NoneVal
  /\ at = StartTime
  /\ fresh = NoFresh

FreshInit ==
  /\ price_ts \in OriginStamps
  /\ at = StartTime
  /\ fresh = NoFresh

\* app.py 1433: the label is computed on every script run
FreshRender ==
  /\ fresh' = price_freshness_label(price_ts, at)
  /\ UNCHANGED <<price_ts, at>>
  /\ FreshOnly

\* half a second passes
FreshTick ==
  /\ at < StartTime + MaxFreshTicks
  /\ at' = at + 1
  /\ UNCHANGED <<price_ts, fresh>>
  /\ FreshOnly

\* a poll stores a new origin timestamp
FreshRestamp(age) ==
  /\ price_ts' = at - age
  /\ price_ts' # price_ts
  /\ fresh' = NoFresh
  /\ UNCHANGED at
  /\ FreshOnly

FreshStep ==
  \/ FreshRender
  \/ FreshTick
  \/ \E age \in {0, SharedTtl} : FreshRestamp(age)

\* C9: a computed label is LIVE for age <= 3 s, NEAR-LIVE for
\* 3 s < age <= 15 s, DELAYED for age > 15 s or no origin timestamp; and
\* while the origin timestamp stays the same, a later label is never nearer
\* to LIVE than an earlier one
LabelRank(l) == IF l = "LIVE" THEN 0 ELSE IF l = "NEAR-LIVE" THEN 1 ELSE 2

FreshnessByAge ==
  [][/\ fresh' # fresh /\ fresh' # NoFresh
          => fresh'.label =
               IF price_ts = NoneVal THEN "DELAYED"
               ELSE IF at - price_ts <= 6 THEN "LIVE"
               ELSE IF at - price_ts <= 30 THEN "NEAR-LIVE"
               ELSE "DELAYED"
     /\ (fresh # NoFresh /\ fresh' # NoFresh /\ price_ts' = price_ts)
          => LabelRank(fresh'.label) >= LabelRank(fresh.label)
    ]_vars

\* a quote was labelled LIVE, then NEAR-LIVE, and is now DELAYED by age
FreshnessWitness ==
  /\ price_ts = StartTime
  /\ fresh.label = "DELAYED"
  /\ fresh.age = 16

\* ------------------------------------------------------------------------
\* Rule gate (logic/evaluate_setup.py)
\* ------------------------------------------------------------------------
\* The series is modelled by what _build_indicator_snapshot reads from it:
\* whether it is None or empty, and the last non-NaN value of each indicator
\* column (NoneVal when the column is missing or all NaN).
NoSeries ==
  [empty |-> TRUE, VWAP |-> NoneVal, RSI |-> NoneVal, EMA_20 |-> NoneVal,
   EMA_50 |-> NoneVal]

VwapValues == {NoneVal, 100050, 100200, 101000, 105000}
RsiValues == {NoneVal, 10, 20, 55, 80, 90}
EmaValues == {NoneVal, 99000, 100000}
Strategies == {"ORB", "VWAP_MEAN_REVERSION", "OTHER"}
\* None, zero, a negative price, a valid price
GatePrices == {NoneVal, 0, -100000, 100000}

SeriesInputs ==
  {NoSeries} \cup
  [empty : {FALSE}, VWAP : VwapValues, RSI : RsiValues, EMA_20 : EmaValues,
   EMA_50 : EmaValues]

GateInputs == [price : GatePrices, df : SeriesInputs, strategy : Strategies]

Abs(x) == IF x < 0 THEN -x ELSE x

NoReason == "None"

\* the empty dict returned with an invalid price
EmptySnapshot ==
  [empty |-> TRUE, price |-> NoneVal, vwap |-> NoneVal, rsi |-> NoneVal,
   ema_20 |-> NoneVal, ema_50 |-> NoneVal]

build_indicator_snapshot(df, price) ==
  IF df.empty
  THEN [empty |-> FALSE, price |-> price, vwap |-> NoneVal, rsi |-> NoneVal,
        ema_20 |-> NoneVal, ema_50 |-> NoneVal]
  ELSE [empty |-> FALSE, price |-> price, vwap |-> df.VWAP, rsi |-> df.RSI,
        ema_20 |-> df.EMA_20, ema_50 |-> df.EMA_50]

\* abs(price - vwap) / price > 0.01
\* the ORB distance test with the 1% bound included
far_from_vwap_inclusive(price, vwap) == Abs(price - vwap) * 100 >= price

far_from_vwap(price, vwap) == Abs(price - vwap) * 100 > price

\* abs(price - vwap) / price < 0.002
close_to_vwap(price, vwap) == Abs(price - vwap) * 1000 < 2 * price

strategy_reasons(snap, price, strategy) ==
  IF strategy = "ORB"
  THEN IF snap.vwap # NoneVal
       THEN IF far_from_vwap(price, snap.vwap)
            THEN <<"Price too far from VWAP for clean ORB entry">>
            ELSE <<>>
       ELSE <<"VWAP unavailable (ORB evaluated using price action only)">>
  ELSE IF strategy = "VWAP_MEAN_REVERSION"
  THEN IF snap.vwap = NoneVal
       THEN <<"VWAP unavailable for mean reversion strategy">>
       ELSE IF close_to_vwap(price, snap.vwap)
            THEN <<"Price too close to VWAP, no mean-reversion edge">>
            ELSE <<>>
  ELSE <<>>

\* the RSI filter without its oversold branch
rsi_reasons_overbought_only(snap) ==
  IF snap.rsi # NoneVal /\ snap.rsi > 80
  THEN <<"RSI extremely overbought">>
  ELSE <<>>

rsi_reasons(snap) ==
  IF snap.rsi # NoneVal
  THEN IF snap.rsi > 80 THEN <<"RSI extremely overbought">>
       ELSE IF snap.rsi < 20 THEN <<"RSI extremely oversold">>
       ELSE <<>>
  ELSE <<>>

ema_reasons(snap) ==
  IF snap.ema_20 # NoneVal /\ snap.ema_50 # NoneVal
     /\ snap.ema_20 < snap.ema_50
  THEN <<"Short-term trend below medium-term EMA">>
  ELSE <<>>

\* the gate with a price of zero let through the sanity check
evaluate_trade_setup_zero_price(df, price, strategy) ==
  IF price = NoneVal \/ price < 0
  THEN [done |-> TRUE, allowed |-> FALSE,
        block_reason |-> "Invalid or missing live price",
        reasons |-> <<"Invalid or missing live price">>,
        snapshot |-> EmptySnapshot]
  ELSE LET snap == build_indicator_snapshot(df, price)
           reasons == strategy_reasons(snap, price, strategy)
                      \o rsi_reasons(snap) \o ema_reasons(snap)
           allowed == Len(reasons) = 0
       IN  [done |-> TRUE, allowed |-> allowed,
            block_reason |-> IF ~allowed THEN reasons[1] ELSE NoReason,
            reasons |-> reasons,
            snapshot |-> snap]

\* the gate reporting its last reason as the block reason
evaluate_trade_setup_last_reason(df, price, strategy) ==
  IF price = NoneVal \/ price <= 0
  THEN [done |-> TRUE, allowed |-> FALSE,
        block_reason |-> "Invalid or missing live price",
        reasons |-> <<"Invalid or missing live price">>,
        snapshot |-> EmptySnapshot]
  ELSE LET snap == build_indicator_snapshot(df, price)
           reasons == strategy_reasons(snap, price, strategy)
                      \o rsi_reasons(snap) \o ema_reasons(snap)
           allowed == Len(reasons) = 0
       IN  [done |-> TRUE, allowed |-> allowed,
            block_reason |-> IF ~allowed THEN reasons[Len(reasons)]
                             ELSE NoReason,
            reasons |-> reasons,
            snapshot |-> snap]

evaluate_trade_setup(df, price, strategy) ==
  IF price = NoneVal \/ price <= 0
  THEN [done |-> TRUE, allowed |-> FALSE,
        block_reason |-> "Invalid or missing live price",
        reasons |-> <<"Invalid or missing live price">>,
        snapshot |-> EmptySnapshot]
  ELSE LET snap == build_indicator_snapshot(df, price)
           reasons == strategy_reasons(snap, price, strategy)
                      \o rsi_reasons(snap) \o ema_reasons(snap)
           allowed == Len(reasons) = 0
       IN  [done |-> TRUE, allowed |-> allowed,
            block_reason |-> IF ~allowed THEN reasons[1] ELSE NoReason,
            reasons |-> reasons,
            snapshot |-> snap]

NoVerdict ==
  [done |-> FALSE, allowed |-> FALSE, block_reason |-> NoReason,
   reasons |-> <<>>, snapshot |-> EmptySnapshot]

GateIdle ==
  /\ setup = [price |-> NoneVal, df |-> NoSeries, strategy |-> "ORB"]
  /\ verdict = NoVerdict

GateInit ==
  /\ setup \in GateInputs
  /\ verdict = NoVerdict

\* app.py 2062: the gate is evaluated for the run's price and series
Evaluate ==
  /\ ~verdict.done
  /\ verdict' = evaluate_trade_setup(setup.df, setup.price, setup.strategy)
  /\ UNCHANGED setup
  /\ GateOnly

\* C10: for ORB with a positive price and no indicator at all, the gate
\* allows the setup (the reason about the missing VWAP does not block)
NoIndicatorOrbAllowed ==
  (/\ verdict.done
   /\ setup.strategy = "ORB"
   /\ setup.price > 0
   /\ verdict.snapshot.vwap = NoneVal
   /\ verdict.snapshot.rsi = NoneVal
   /\ verdict.snapshot.ema_20 = NoneVal
   /\ verdict.snapshot.ema_50 = NoneVal)
    => verdict.allowed

\* C11: whatever the strategy and the other indicators, a series whose RSI
\* is above 80 or below 20, or whose EMA 20 is below its EMA 50, is never
\* allowed
BlockingConditionBlocks ==
  (/\ verdict.done
   /\ ~setup.df.empty
   /\ \/ setup.df.RSI > 80
      \/ setup.df.RSI # NoneVal /\ setup.df.RSI < 20
      \/ /\ setup.df.EMA_20 # NoneVal
         /\ setup.df.EMA_50 # NoneVal
         /\ setup.df.EMA_20 < setup.df.EMA_50)
    => ~verdict.allowed

\* an oversold RSI alone blocked a setup of a strategy without filters
BlockingConditionWitness ==
  /\ verdict.done
  /\ setup.price > 0
  /\ setup.strategy = "OTHER"
  /\ ~setup.df.empty
  /\ setup.df.RSI = 10
  /\ setup.df.EMA_20 = NoneVal
  /\ ~verdict.allowed
  /\ verdict.block_reason = "RSI extremely oversold"

\* C12: for ORB with a VWAP and no RSI or EMA block, the gate blocks exactly
\* when |price - vwap| / price > 0.01, and then names the VWAP distance
OrbVwapDistance ==
  (/\ verdict.done
   /\ setup.strategy = "ORB"
   /\ setup.price > 0
   /\ ~setup.df.empty
   /\ setup.df.VWAP # NoneVal
   /\ setup.df.RSI = NoneVal \/ (setup.df.RSI >= 20 /\ setup.df.RSI <= 80)
   /\ \/ setup.df.EMA_20 = NoneVal
      \/ setup.df.EMA_50 = NoneVal
      \/ setup.df.EMA_20 >= setup.df.EMA_50)
    => /\ ~verdict.allowed
            <=> Abs(setup.price - setup.df.VWAP) * 100 > setup.price
       /\ ~verdict.allowed
            => verdict.block_reason
                 = "Price too far from VWAP for clean ORB entry"
       /\ (setup.price = 100000 /\ setup.df.VWAP = 100050)
            => verdict.allowed
       /\ (setup.price = 100000 /\ setup.df.VWAP = 105000)
            => ~verdict.allowed

\* price 100 with a VWAP of 105 and a healthy RSI was blocked for distance
OrbVwapDistanceWitness ==
  /\ verdict.done
  /\ setup.strategy = "ORB"
  /\ setup.price = 100000
  /\ ~setup.df.empty
  /\ setup.df.VWAP = 105000
  /\ setup.df.RSI = 55
  /\ ~verdict.allowed
  /\ verdict.reasons = <<"Price too far from VWAP for clean ORB entry">>

\* C13: a price of None, zero or below gives a result (no exception) that is
\* not allowed and holds exactly one reason, which is also its block reason
InvalidPriceBlocked ==
  (verdict.done /\ (setup.price = NoneVal \/ setup.price <= 0))
    => /\ ~verdict.allowed
       /\ Len(verdict.reasons) = 1
       /\ verdict.block_reason = verdict.reasons[1]

\* a price of zero was rejected whatever the series held
InvalidPriceWitness ==
  /\ verdict.done
  /\ setup.price = 0
  /\ ~setup.df.empty
  /\ setup.df.VWAP = 100050
  /\ ~verdict.allowed
  /\ verdict.reasons = <<"Invalid or missing live price">>

OptionsBiases == {"BULLISH", "BEARISH", "NEUTRAL"}

\* risk_context=None (or an empty dict)
NoRisk == [present |-> FALSE, trades |-> 0, pnl |-> 0]

\* the keyword arguments: a VWAP of None, of zero (falsy), 1% below, 0.2%
\* below and 0.5% above a price of 100; the index PCR in hundredths; no risk
\* context or the session's trades and pnl
ConfInputs ==
  [vwap : {NoneVal, 0, 99000, 99800, 100500},
   rsi : {NoneVal, 0, 25, 40, 55, 75},
   ema_20 : {NoneVal, 99000, 100000},
   ema_50 : {NoneVal, 99000, 100000},
   price : {0, 100000},
   direction : Sides,
   index_pcr : {NoneVal, 85, 100, 120},
   options_bias : OptionsBiases,
   risk : {NoRisk}
          \cup [present : {TRUE}, trades : {0, 5}, pnl : {-50000, 0}]]

\* `if x:` on a number or None
Truthy(x) == x # NoneVal /\ x # 0

\* 1. VWAP alignment
vwap_points(c) ==
  IF Truthy(c.vwap)
  THEN LET side ==
             IF c.direction = "BUY" /\ c.price > c.vwap
             THEN [pts |-> 15,
                   reasons |-> <<"Price above VWAP (bullish bias)">>]
             ELSE IF c.direction = "SELL" /\ c.price < c.vwap
             THEN [pts |-> 15,
                   reasons |-> <<"Price below VWAP (bearish bias)">>]
             ELSE [pts |-> 5, reasons |-> <<"Price on weak side of VWAP">>]
            \* distance = abs(price - vwap) / vwap against 0.003 and 0.01
            dist ==
             IF Abs(c.price - c.vwap) * 1000 < 3 * c.vwap
             THEN [pts |-> 10,
                   reasons |-> <<"Price close to VWAP (low slippage)">>]
             ELSE IF Abs(c.price - c.vwap) * 100 < c.vwap
             THEN [pts |-> 5,
                   reasons |-> <<"Price moderately extended from VWAP">>]
             ELSE [pts |-> 0,
                   reasons |-> <<"Price far from VWAP (extension risk)">>]
       IN  [pts |-> side.pts + dist.pts,
            reasons |-> side.reasons \o dist.reasons]
  ELSE [pts |-> 5, reasons |-> <<"VWAP unavailable (confidence reduced)">>]

\* the trend factor scoring nothing without the EMA pair
trend_points_zero_default(c) ==
  IF Truthy(c.ema_20) /\ Truthy(c.ema_50)
  THEN IF c.ema_20 > c.ema_50
       THEN [pts |-> 20,
             reasons |-> <<"Short-term trend above medium-term EMA">>]
       ELSE [pts |-> 5, reasons |-> <<"Trend weak or against position">>]
  ELSE [pts |-> 0, reasons |-> <<"EMA trend unavailable">>]

\* 2. trend structure
trend_points(c) ==
  IF Truthy(c.ema_20) /\ Truthy(c.ema_50)
  THEN IF c.ema_20 > c.ema_50
       THEN [pts |-> 20,
             reasons |-> <<"Short-term trend above medium-term EMA">>]
       ELSE [pts |-> 5, reasons |-> <<"Trend weak or against position">>]
  ELSE [pts |-> 8, reasons |-> <<"EMA trend unavailable">>]

\* 3. RSI context
rsi_points(c) ==
  IF Truthy(c.rsi)
  THEN IF 45 <= c.rsi /\ c.rsi <= 65
       THEN [pts |-> 15, reasons |-> <<"RSI in healthy momentum zone">>]
       ELSE IF c.rsi > 70
       THEN [pts |-> 5, reasons |-> <<"RSI overbought (risk of pullback)">>]
       ELSE IF c.rsi < 30
       THEN [pts |-> 5, reasons |-> <<"RSI oversold (risk of bounce)">>]
       ELSE [pts |-> 8, reasons |-> <<"RSI neutral">>]
  ELSE [pts |-> 8, reasons |-> <<"RSI unavailable">>]

\* 4. index PCR context
pcr_points(c) ==
  IF c.index_pcr # NoneVal
  THEN IF c.direction = "BUY" /\ c.index_pcr > 100
       THEN [pts |-> 15, reasons |-> <<"Index PCR supports long bias">>]
       ELSE IF c.direction = "SELL" /\ c.index_pcr < 100
       THEN [pts |-> 15, reasons |-> <<"Index PCR supports short bias">>]
       ELSE [pts |-> 5, reasons |-> <<"Index PCR weakly aligned">>]
  ELSE [pts |-> 5, reasons |-> <<"Index PCR unavailable">>]

\* 5. options bias
bias_points(c) ==
  IF c.options_bias = "BULLISH" /\ c.direction = "BUY"
  THEN [pts |-> 10, reasons |-> <<"Options bias bullish">>]
  ELSE IF c.options_bias = "BEARISH" /\ c.direction = "SELL"
  THEN [pts |-> 10, reasons |-> <<"Options bias bearish">>]
  ELSE [pts |-> 3, reasons |-> <<"Options bias neutral or mixed">>]

\* 6. risk context: penalties only
risk_points(c) ==
  IF c.risk.present
  THEN LET fatigue ==
             IF c.risk.trades >= 5
             THEN [pts |-> -5,
                   reasons |-> <<"Multiple trades today (fatigue risk)">>]
             ELSE [pts |-> 0, reasons |-> <<>>]
            drawdown ==
             IF c.risk.pnl < 0
             THEN [pts |-> -5, reasons |-> <<"Currently in drawdown">>]
             ELSE [pts |-> 0, reasons |-> <<>>]
       IN  [pts |-> fatigue.pts + drawdown.pts,
            reasons |-> fatigue.reasons \o drawdown.reasons]
  ELSE [pts |-> 0, reasons |-> <<>>]

\* the top of the score scale
MaxScore == 100

\* max(0, min(int(score), 100))
clamp_score(x) == IF x < 0 THEN 0 ELSE IF x > MaxScore THEN MaxScore ELSE x

\* the scorer with the penalties scaled by the day's trades and no final
\* clamp
calculate_trade_confidence_unclamped(c) ==
  [done |-> TRUE,
   score |-> vwap_points(c).pts + trend_points(c).pts + rsi_points(c).pts
             + pcr_points(c).pts + bias_points(c).pts
             + (IF c.risk.present THEN risk_points(c).pts * c.risk.trades
                ELSE 0),
   reasons |-> vwap_points(c).reasons \o trend_points(c).reasons
               \o rsi_points(c).reasons \o pcr_points(c).reasons
               \o bias_points(c).reasons \o risk_points(c).reasons]

\* score = max(0, min(int(score), 100)); return score, reasons
calculate_trade_confidence(c) ==
  [done |-> TRUE,
   score |-> clamp_score(vwap_points(c).pts + trend_points(c).pts
                         + rsi_points(c).pts + pcr_points(c).pts
                         + bias_points(c).pts + risk_points(c).pts),
   reasons |-> vwap_points(c).reasons \o trend_points(c).reasons
               \o rsi_points(c).reasons \o pcr_points(c).reasons
               \o bias_points(c).reasons \o risk_points(c).reasons]

\* the label with the HIGH threshold made strict
confidence_label_strict(score) ==
  IF score > 75 THEN "HIGH"
  ELSE IF score >= 60 THEN "MODERATE"
  ELSE IF score >= 45 THEN "LOW"
  ELSE "NO_TRADE"

\* logic/trade_confidence.py
confidence_label(score) ==
  IF score >= 75 THEN "HIGH"
  ELSE IF score >= 60 THEN "MODERATE"
  ELSE IF score >= 45 THEN "LOW"
  ELSE "NO_TRADE"

\* logic/decision.py
decision_confidence_label(score) ==
  IF score >= 75 THEN "HIGH"
  ELSE IF score >= 60 THEN "MODERATE"
  ELSE IF score >= 45 THEN "LOW"
  ELSE "NO_TRADE"

\* the final classification with the BUY threshold made strict
scan_status_strict(confidence_score) ==
  IF confidence_score > 70 THEN "BUY"
  ELSE IF confidence_score >= 45 THEN "WATCH"
  ELSE "AVOID"

\* market_opportunity_scanner.py: final classification of a scored symbol
scan_status(confidence_score) ==
  IF confidence_score >= 70 THEN "BUY"
  ELSE IF confidence_score >= 45 THEN "WATCH"
  ELSE "AVOID"

NoConf == [done |-> FALSE, score |-> 0, reasons |-> <<>>]
NoLabel ==
  [done |-> FALSE, trade_confidence |-> "none", decision |-> "none",
   status |-> "none"]

ConfIdle ==
  /\ cin = [vwap |-> NoneVal, rsi |-> NoneVal, ema_20 |-> NoneVal,
            ema_50 |-> NoneVal, price |-> 0, direction |-> "BUY",
            index_pcr |-> NoneVal, options_bias |-> "NEUTRAL",
            risk |-> NoRisk]
  /\ cout = NoConf
  /\ lscore = 0
  /\ llabel = NoLabel

ConfInit ==
  /\ cin \in ConfInputs
  /\ cout = NoConf
  /\ lscore = 0
  /\ llabel = NoLabel

LabelInit ==
  /\ cin = [vwap |-> NoneVal, rsi |-> NoneVal, ema_20 |-> NoneVal,
            ema_50 |-> NoneVal, price |-> 0, direction |-> "BUY",
            index_pcr |-> NoneVal, options_bias |-> "NEUTRAL",
            risk |-> NoRisk]
  /\ cout = NoConf
  /\ lscore \in 0..MaxScore
  /\ llabel = NoLabel

\* app.py 2081: the scorer is run on the snapshot of an allowed setup
Score ==
  /\ ~cout.done
  /\ cout' = calculate_trade_confidence(cin)
  /\ UNCHANGED <<cin, lscore, llabel>>
  /\ ConfOnly

\* app.py 2092, market_opportunity_scanner.py 112-122: the score is labelled
\* and, in the scanner, classified
Label ==
  /\ ~llabel.done
  /\ llabel' = [done |-> TRUE,
                trade_confidence |-> confidence_label(lscore),
                decision |-> decision_confidence_label(lscore),
                status |-> scan_status(lscore)]
  /\ UNCHANGED <<cin, cout, lscore>>
  /\ ConfOnly

\* C15: whatever the snapshot, price, direction, PCR, options bias and risk
\* context, the score returned is an integer from 0 to 100
ScoreInRange == cout.done => cout.score \in 0..100

\* the lowest score: every factor at its weakest and both risk penalties
ScoreInRangeWitness ==
  /\ cout.done
  /\ cin.risk.present
  /\ cout.score = 13
  /\ Len(cout.reasons) = 8

\* C16: the label is HIGH from 75, MODERATE from 60 to 74, LOW from 45 to 59
\* and NO_TRADE up to 44, for every score from 0 to 100 and in both modules
LabelStepFunction ==
  llabel.done
    => \A l \in {llabel.trade_confidence, llabel.decision} :
         /\ l = "HIGH" <=> lscore >= 75
         /\ l = "MODERATE" <=> (60 <= lscore /\ lscore <= 74)
         /\ l = "LOW" <=> (45 <= lscore /\ lscore <= 59)
         /\ l = "NO_TRADE" <=> lscore <= 44

\* the boundary score 75 was labelled HIGH
LabelStepWitness ==
  /\ llabel.done
  /\ lscore = 75
  /\ llabel.trade_confidence = "HIGH"
  /\ llabel.decision = "HIGH"

\* C21: a scored symbol is BUY from 70, WATCH from 45 to 69 and AVOID up to
\* 44, for every score from 0 to 100
ScanStatusThresholds ==
  llabel.done
    => /\ llabel.status = "BUY" <=> lscore >= 70
       /\ llabel.status = "WATCH" <=> (45 <= lscore /\ lscore <= 69)
       /\ llabel.status = "AVOID" <=> lscore <= 44

\* the boundary score 70 was classified BUY
ScanStatusWitness ==
  /\ llabel.done
  /\ lscore = 70
  /\ llabel.status = "BUY"

\* C17: each factor whose input is missing (VWAP, EMA pair, RSI, index PCR)
\* adds a default above zero and one reason, which is returned; with all of
\* them missing and no risk penalty the score is above zero
MissingInputsScorePositive ==
  LET Returned(r) == \E i \in DOMAIN cout.reasons : cout.reasons[i] = r
  IN
  cout.done
    => /\ ~Truthy(cin.vwap)
            => /\ vwap_points(cin).pts > 0
               /\ Len(vwap_points(cin).reasons) = 1
               /\ Returned(vwap_points(cin).reasons[1])
       /\ ~(Truthy(cin.ema_20) /\ Truthy(cin.ema_50))
            => /\ trend_points(cin).pts > 0
               /\ Len(trend_points(cin).reasons) = 1
               /\ Returned(trend_points(cin).reasons[1])
       /\ ~Truthy(cin.rsi)
            => /\ rsi_points(cin).pts > 0
               /\ Len(rsi_points(cin).reasons) = 1
               /\ Returned(rsi_points(cin).reasons[1])
       /\ cin.index_pcr = NoneVal
            => /\ pcr_points(cin).pts > 0
               /\ Len(pcr_points(cin).reasons) = 1
               /\ Returned(pcr_points(cin).reasons[1])
       /\ (/\ ~Truthy(cin.vwap)
           /\ ~(Truthy(cin.ema_20) /\ Truthy(cin.ema_50))
           /\ ~Truthy(cin.rsi)
           /\ cin.index_pcr = NoneVal
           /\ risk_points(cin).pts = 0)
            => /\ cout.score > 0
               /\ cout.score
                    = vwap_points(cin).pts + trend_points(cin).pts
                      + rsi_points(cin).pts + pcr_points(cin).pts
                      + bias_points(cin).pts
               /\ Len(cout.reasons) = 5

\* every optional input missing and no risk context: 5 + 8 + 8 + 5 + 3
MissingInputsWitness ==
  /\ cout.done
  /\ cin.vwap = NoneVal
  /\ cin.ema_20 = NoneVal
  /\ cin.ema_50 = NoneVal
  /\ cin.rsi = NoneVal
  /\ cin.index_pcr = NoneVal
  /\ ~cin.risk.present
  /\ cin.options_bias = "NEUTRAL"
  /\ cout.score = 29
  /\ Len(cout.reasons) = 5

\* ------------------------------------------------------------------------
\* Decision combinator (logic/decision.py, logic/risk.py)
\* ------------------------------------------------------------------------
\* the arguments: the session's trades and pnl against max_trades and
\* max_loss (risk_ok); the index PCR in hundredths (0.85, 0.90, 1.20); a
\* price of 100 against no level, a level 0.1% above and the 0.6% above of
\* calc_levels; no score, 44, 45 and 80
DecInputs ==
  [open_now : BOOLEAN,
   trades : {0, 3},
   max_trades : {3},
   pnl : {-5000000, 0},
   max_loss : {5000000},
   index_pcr : {85, 90, 120},
   price : {NoneVal, 100000},
   resistance : {NoneVal, 100100, 100600},
   options_bias : OptionsBiases,
   confidence_score : {NoneVal, 44, 45, 80}]

risk_ok(t, max_trades, p, max_loss) ==
  IF t >= max_trades THEN [ok |-> FALSE, reason |-> "Max trades reached"]
  ELSE IF p <= -max_loss THEN [ok |-> FALSE, reason |-> "Max loss reached"]
  ELSE [ok |-> TRUE, reason |-> NoReason]

\* price >= resistance * 0.998, with both present and non-zero
near_resistance(price, resistance) ==
  /\ Truthy(price)
  /\ Truthy(resistance)
  /\ price * 1000 >= resistance * 998

\* the combinator with the options-bias block tested before the PCR block
trade_decision_bias_first(d) ==
  LET risk_status == risk_ok(d.trades, d.max_trades, d.pnl, d.max_loss)
  IN  IF ~d.open_now
      THEN [done |-> TRUE, allowed |-> FALSE, reason |-> "Market closed"]
      ELSE IF ~risk_status.ok
      THEN [done |-> TRUE, allowed |-> FALSE, reason |-> risk_status.reason]
      ELSE IF d.options_bias = "BEARISH"
      THEN [done |-> TRUE, allowed |-> FALSE,
            reason |-> "Options bias bearish"]
      ELSE IF d.index_pcr < 90
      THEN [done |-> TRUE, allowed |-> FALSE, reason |-> "Index PCR bearish"]
      ELSE IF near_resistance(d.price, d.resistance)
      THEN [done |-> TRUE, allowed |-> FALSE, reason |-> "Near resistance"]
      ELSE IF d.confidence_score # NoneVal /\ d.confidence_score < 45
      THEN [done |-> TRUE, allowed |-> FALSE,
            reason |-> "Low confidence - insufficient edge"]
      ELSE [done |-> TRUE, allowed |-> TRUE, reason |-> "Trade allowed"]

trade_decision(d) ==
  LET risk_status == risk_ok(d.trades, d.max_trades, d.pnl, d.max_loss)
  IN  IF ~d.open_now
      THEN [done |-> TRUE, allowed |-> FALSE, reason |-> "Market closed"]
      ELSE IF ~risk_status.ok
      THEN [done |-> TRUE, allowed |-> FALSE, reason |-> risk_status.reason]
      ELSE IF d.index_pcr < 90
      THEN [done |-> TRUE, allowed |-> FALSE, reason |-> "Index PCR bearish"]
      ELSE IF d.options_bias = "BEARISH"
      THEN [done |-> TRUE, allowed |-> FALSE,
            reason |-> "Options bias bearish"]
      ELSE IF near_resistance(d.price, d.resistance)
      THEN [done |-> TRUE, allowed |-> FALSE, reason |-> "Near resistance"]
      ELSE IF d.confidence_score # NoneVal /\ d.confidence_score < 45
      THEN [done |-> TRUE, allowed |-> FALSE,
            reason |-> "Low confidence - insufficient edge"]
      ELSE [done |-> TRUE, allowed |-> TRUE, reason |-> "Trade allowed"]

NoDecision == [done |-> FALSE, allowed |-> FALSE, reason |-> NoReason]

DecIdle ==
  /\ din = [open_now |-> FALSE, trades |-> 0, max_trades |-> 3, pnl |-> 0,
            max_loss |-> 5000000, index_pcr |-> 120, price |-> NoneVal,
            resistance |-> NoneVal, options_bias |-> "NEUTRAL",
            confidence_score |-> NoneVal]
  /\ dout = NoDecision

DecInit ==
  /\ din \in DecInputs
  /\ dout = NoDecision

\* trade_decision(open_now, risk_ok(...), index_pcr, price, resistance, ...)
Decide ==
  /\ ~dout.done
  /\ dout' = trade_decision(din)
  /\ UNCHANGED din
  /\ DecOnly

\* C18: the decision is denied with the reason of the first failing check in
\* the order market closed, risk, PCR below 0.9, bearish options bias, near
\* resistance, score below 45, and is "Trade allowed" only when all six pass
TradeDecisionOrder ==
  LET DecFails ==
        <<~din.open_now,
          din.trades >= din.max_trades \/ din.pnl <= -din.max_loss,
          din.index_pcr < 90,
          din.options_bias = "BEARISH",
          /\ din.price # NoneVal
          /\ din.resistance # NoneVal
          /\ din.price * 1000 >= din.resistance * 998,
          din.confidence_score # NoneVal /\ din.confidence_score < 45>>
      DecReasons ==
        <<{"Market closed"}, {"Max trades reached", "Max loss reached"},
          {"Index PCR bearish"}, {"Options bias bearish"},
          {"Near resistance"}, {"Low confidence - insufficient edge"}>>
  IN
  dout.done
    => /\ \A i \in 1..6 :
            (DecFails[i] /\ \A j \in 1..(i - 1) : ~DecFails[j])
              => (~dout.allowed /\ dout.reason \in DecReasons[i])
       /\ dout.allowed <=> \A i \in 1..6 : ~DecFails[i]
       /\ dout.allowed => dout.reason = "Trade allowed"
       /\ (/\ din.index_pcr = 85
           /\ din.open_now
           /\ din.trades < din.max_trades
           /\ din.pnl > -din.max_loss)
            => (~dout.allowed /\ dout.reason = "Index PCR bearish")

\* PCR 0.85 with the market open, risk ok, a bearish options bias and a
\* score of 80 was denied as PCR-bearish
TradeDecisionWitness ==
  /\ dout.done
  /\ din.open_now
  /\ din.trades = 0
  /\ din.pnl = 0
  /\ din.index_pcr = 85
  /\ din.options_bias = "BEARISH"
  /\ din.confidence_score = 80
  /\ ~dout.allowed
  /\ dout.reason = "Index PCR bearish"

\* ------------------------------------------------------------------------
\* Watchlist scanner (logic/market_opportunity_scanner.py, logic/decision.py,
\* logic/levels.py)
\* ------------------------------------------------------------------------
\* symbols scanned in one call
MaxScan == 2

\* the symbols as typed, in list order
RawSymbols == <<"tcs.ns", " infy ", "RELIANCE", "sbin">>

\* symbol.upper().strip().replace(".NS", "")
normalize_symbol(raw) ==
  CASE raw = "tcs.ns" -> "TCS"
    [] raw = " infy " -> "INFY"
    [] raw = "sbin" -> "SBIN"
    [] OTHER -> raw

\* what live_price and get_intraday_data give for one symbol: no price; a
\* price with no series, with a fetch that raises, or with a series whose
\* VWAP column is missing (NoneVal; services/charts.py adds none) or holds a
\* last value, with the sign of the VWAP slope over the last five bars and the
\* counts of higher highs and higher lows
ScanOutcomes ==
  [price : {NoneVal}, kind : {"none"}, VWAP : {NoneVal}, RSI : {NoneVal},
   vwap_slope : {0}, higher : {<<0, 0>>}]
  \cup
  [price : {100000}, kind : {"none", "raises"}, VWAP : {NoneVal},
   RSI : {NoneVal}, vwap_slope : {0}, higher : {<<0, 0>>}]
  \cup
  [price : {100000}, kind : {"data"}, VWAP : {NoneVal, 98000, 100050},
   RSI : {NoneVal, 90}, vwap_slope : {-1, 1}, higher : {<<3, 3>>, <<0, 0>>}]

\* calc_levels(price)["orb_high"]
calc_levels_orb_high(price) == Round2((price * 1004) \div 1000)

\* logic/decision.py calculate_trade_confidence(context): the score and the
\* values of the reasons dict, in insertion order
decision_trade_confidence(c) ==
  LET position ==
        IF Truthy(c.price) /\ Truthy(c.vwap)
        THEN IF c.price > c.vwap
             THEN [pts |-> 15, reasons |-> <<"Price above VWAP (bullish)">>]
             ELSE [pts |-> 5, reasons |-> <<"Price below VWAP (weak)">>]
        ELSE [pts |-> 0, reasons |-> <<>>]
      slope ==
        IF c.vwap_slope > 0
        THEN [pts |-> 15, reasons |-> <<"VWAP rising (trend support)">>]
        ELSE IF c.vwap_slope < 0
        THEN [pts |-> 5, reasons |-> <<"VWAP falling (headwind)">>]
        ELSE [pts |-> 8, reasons |-> <<"VWAP flat (neutral)">>]
      orb ==
        IF c.orb_signal = "CONFIRMED"
        THEN [pts |-> 20, reasons |-> <<"ORB breakout confirmed">>]
        ELSE [pts |-> 8, reasons |-> <<"No ORB confirmation">>]
      trend ==
        IF c.trend_alignment = "STRONG"
        THEN [pts |-> 20, reasons |-> <<"Strong trend structure">>]
        ELSE IF c.trend_alignment = "MILD"
        THEN [pts |-> 10, reasons |-> <<"Mild trend">>]
        ELSE [pts |-> 5, reasons |-> <<"Range / weak structure">>]
      pcr ==
        IF Truthy(c.pcr)
        THEN IF c.direction = "BUY" /\ c.pcr > 100
             THEN [pts |-> 10, reasons |-> <<"PCR supports long bias">>]
             ELSE IF c.direction = "SELL" /\ c.pcr < 100
             THEN [pts |-> 10, reasons |-> <<"PCR supports short bias">>]
             ELSE [pts |-> 5, reasons |-> <<"PCR neutral / weak">>]
        ELSE [pts |-> 0, reasons |-> <<>>]
      total == position.pts + slope.pts + orb.pts + trend.pts + pcr.pts
  IN  [score |-> IF total > MaxScore THEN MaxScore ELSE total,
       reasons |-> position.reasons \o slope.reasons \o orb.reasons
                   \o trend.reasons \o pcr.reasons]

\* one pass of the loop that drops a symbol without a series
scan_symbol_skips_missing(raw, x, index_pcr) ==
  LET symbol == normalize_symbol(raw)
      avoid(reason) ==
        <<[symbol |-> symbol, status |-> "AVOID", confidence |-> 0,
           reasons |-> <<reason>>]>>
  IN  IF x.price = NoneVal THEN avoid("Live price unavailable")
      ELSE IF x.kind = "raises" THEN avoid("Scanner error: fetch failed")
      ELSE IF x.kind = "none" THEN <<>>
      ELSE IF x.VWAP = NoneVal THEN avoid("Scanner error: 'VWAP'")
      ELSE LET conf ==
                 decision_trade_confidence(
                   [price |-> x.price, vwap |-> x.VWAP,
                    vwap_slope |-> x.vwap_slope,
                    orb_signal |->
                      IF x.price > calc_levels_orb_high(x.price)
                      THEN "CONFIRMED" ELSE "NONE",
                    trend_alignment |->
                      IF x.higher[1] >= 3 /\ x.higher[2] >= 3 THEN "STRONG"
                      ELSE IF x.higher[1] >= 2 THEN "MILD"
                      ELSE "NONE",
                    pcr |-> index_pcr, direction |-> "BUY"])
           IN  <<[symbol |-> symbol, status |-> scan_status(conf.score),
                  confidence |-> conf.score, reasons |-> conf.reasons]>>

\* one pass of the loop: the results it appends for the symbol raw, whose
\* fetches give x
scan_symbol(raw, x, index_pcr) ==
  LET symbol == normalize_symbol(raw)
      avoid(reason) ==
        <<[symbol |-> symbol, status |-> "AVOID", confidence |-> 0,
           reasons |-> <<reason>>]>>
  IN  IF x.price = NoneVal THEN avoid("Live price unavailable")
      ELSE IF x.kind = "raises" THEN avoid("Scanner error: fetch failed")
      ELSE IF x.kind = "none" THEN avoid("Intraday data unavailable")
      ELSE IF x.VWAP = NoneVal THEN avoid("Scanner error: 'VWAP'")
      ELSE LET conf ==
                 decision_trade_confidence(
                   [price |-> x.price, vwap |-> x.VWAP,
                    vwap_slope |-> x.vwap_slope,
                    orb_signal |->
                      IF x.price > calc_levels_orb_high(x.price)
                      THEN "CONFIRMED" ELSE "NONE",
                    trend_alignment |->
                      IF x.higher[1] >= 3 /\ x.higher[2] >= 3 THEN "STRONG"
                      ELSE IF x.higher[1] >= 2 THEN "MILD"
                      ELSE "NONE",
                    pcr |-> index_pcr, direction |-> "BUY"])
           IN  <<[symbol |-> symbol, status |-> scan_status(conf.score),
                  confidence |-> conf.score, reasons |-> conf.reasons]>>

RECURSIVE run_market_opportunity_scanner(_, _, _)
\* the results for the symbols from position i on
run_market_opportunity_scanner(fetched, index_pcr, i) ==
  IF i > Len(fetched) THEN <<>>
  ELSE scan_symbol(RawSymbols[i], fetched[i], index_pcr)
       \o run_market_opportunity_scanner(fetched, index_pcr, i + 1)

ScanIdle ==
  /\ scanIn = [fetched |-> <<>>, index_pcr |-> NoneVal]
  /\ scanOut = [done |-> FALSE, results |-> <<>>]

\* a list of up to MaxScan symbols, what their fetches give, and get_pcr()
ScanInit ==
  /\ \E n \in 0..MaxScan :
       scanIn \in [fetched : [1..n -> ScanOutcomes],
                   index_pcr : {NoneVal, 85, 120}]
  /\ scanOut = [done |-> FALSE, results |-> <<>>]

\* app.py 1291: scanner_results = run_market_opportunity_scanner(symbols)
Scan ==
  /\ ~scanOut.done
  /\ scanOut' = [done |-> TRUE,
                 results |-> run_market_opportunity_scanner(
                               scanIn.fetched, scanIn.index_pcr, 1)]
  /\ UNCHANGED scanIn
  /\ ScanOnly

MaxLines == 2

\* expected_cols, four of the fifteen
ExpectedCols == {"Trade ID", "Symbol", "Exit", "Status"}

\* load_day_trades on a file: no file and a file read_csv cannot parse give
\* []; on_bad_lines="skip" drops the lines with more fields than the header,
\* a line with fewer fields is padded with NaN; the expected columns the
\* header lacks are added as None and the other columns are dropped
load_day_trades_of(f) ==
  IF f.kind # "csv" THEN <<>>
  ELSE LET fits(line) == Len(line) <= Len(f.header)
           pos(c) == CHOOSE k \in 1..Len(f.header) : f.header[k] = c
           has(c) == \E k \in 1..Len(f.header) : f.header[k] = c
           record(line) ==
             [c \in ExpectedCols |->
                IF ~has(c) THEN NoneVal
                ELSE IF pos(c) <= Len(line) THEN line[pos(c)]
                ELSE NaNVal]
           kept == SelectSeq(f.lines, fits)
       IN  [i \in 1..Len(kept) |-> record(kept[i])]

LoadIdle ==
  /\ dayFile = [kind |-> "absent", header |-> <<>>, lines |-> <<>>]
  /\ loaded = [done |-> FALSE, rows |-> <<>>]

\* no file; a file read_csv raises on; a header (complete, without the Exit
\* column, or with a column of its own) and up to MaxLines lines of two to
\* six cells
LoadInit ==
  /\ \/ dayFile \in [kind : {"absent", "unreadable"}, header : {<<>>},
                      lines : {<<>>}]
     \/ \E m \in 0..MaxLines :
          dayFile \in
            [kind : {"csv"},
             header : {<<"Trade ID", "Symbol", "Exit", "Status">>,
                       <<"Trade ID", "Symbol", "Status">>,
                       <<"Trade ID", "Symbol", "Exit", "Status", "Extra">>},
             lines : [1..m -> UNION {[1..n -> {1}] : n \in 2..6}]]
  /\ loaded = [done |-> FALSE, rows |-> <<>>]

\* app.py 747: st.session_state.history = load_day_trades()
Load ==
  /\ ~loaded.done
  /\ loaded' = [done |-> TRUE, rows |-> load_day_trades_of(dayFile)]
  /\ UNCHANGED dayFile
  /\ UNCHANGED <<ledgerVars, priceVars, freshVars, gateVars, confVars,
                 decVars, scanVars>>

\* C23: load_day_trades returns [] when the file is absent or unreadable and
\* otherwise one record per line that has exactly the header's fields, none
\* for the others; each record has every expected column, None where the
\* header lacks the column and the line's cell where it has it
LoadKeepsWellFormedRows ==
  loaded.done =>
    /\ dayFile.kind # "csv" => loaded.rows = <<>>
    /\ dayFile.kind = "csv" =>
         LET wellFormed == {i \in DOMAIN dayFile.lines :
                              Len(dayFile.lines[i]) = Len(dayFile.header)}
             has(c) == \E k \in 1..Len(dayFile.header) :
                         dayFile.header[k] = c
         IN  /\ Len(loaded.rows) = Cardinality(wellFormed)
             /\ \A i \in DOMAIN loaded.rows :
                  /\ DOMAIN loaded.rows[i] = ExpectedCols
                  /\ \A c \in ExpectedCols :
                       IF has(c) THEN loaded.rows[i][c] = 1
                       ELSE loaded.rows[i][c] = NoneVal

\* ------------------------------------------------------------------------
\* Specifications
\* ------------------------------------------------------------------------
LogicIdle == ConfIdle /\ DecIdle /\ ScanIdle /\ LoadIdle

Init ==
  /\ LedgerInit
  /\ PriceIdle /\ impl = [s \in Sessions |-> "app"]
  /\ FreshIdle
  /\ GateIdle
  /\ LogicIdle

\* one browser session, every symbol and side
Next == LedgerStep({"s1"}, Symbols, Sides, MaxRows)

Spec == Init /\ [][Next]_vars

\* two browser sessions on one day's file, one symbol, long trades
ConcNext == LedgerStep(Sessions, {"INFY"}, {"BUY"}, MaxConcRows)

ConcSpec == Init /\ [][ConcNext]_vars

\* one session polling one symbol
PriceSpecInit == LedgerInit /\ PriceInit({"s1"}) /\ FreshIdle /\ GateIdle
  /\ LogicIdle

PriceNext == PriceStep({"s1"}, {"INFY"}, SharedAnswers, PricesOrNone)

PriceSpec == PriceSpecInit /\ [][PriceNext]_vars

\* two sessions polling one symbol, the shared service up
PollConcInit == LedgerInit /\ PriceInit(Sessions) /\ FreshIdle /\ GateIdle
  /\ LogicIdle

PollConcNext == PriceStep(Sessions, {"INFY"}, FreshAnswers, {NoneVal})

PollConcSpec == PollConcInit /\ [][PollConcNext]_vars

\* the freshness label of one slot as time passes
FreshSpecInit ==
  /\ LedgerInit
  /\ PriceIdle /\ impl = [s \in Sessions |-> "app"]
  /\ FreshInit
  /\ GateIdle
  /\ LogicIdle

FreshSpec == FreshSpecInit /\ [][FreshStep]_vars

\* the rule gate over its inputs
GateSpecInit ==
  /\ LedgerInit
  /\ PriceIdle /\ impl = [s \in Sessions |-> "app"]
  /\ FreshIdle
  /\ GateInit
  /\ LogicIdle

GateSpec == GateSpecInit /\ [][Evaluate]_vars

\* what is not the rule logic, at rest
RestIdle ==
  /\ LedgerInit
  /\ PriceIdle /\ impl = [s \in Sessions |-> "app"]
  /\ FreshIdle
  /\ GateIdle
  /\ LoadIdle

\* the confidence scorer over its inputs
ConfSpecInit == RestIdle /\ ConfInit /\ DecIdle /\ ScanIdle

ConfSpec == ConfSpecInit /\ [][Score]_vars

\* the confidence label over the scores
LabelSpecInit == RestIdle /\ LabelInit /\ DecIdle /\ ScanIdle

LabelSpec == LabelSpecInit /\ [][Label]_vars

\* the decision combinator over its inputs
DecSpecInit == RestIdle /\ ConfIdle /\ DecInit /\ ScanIdle

DecSpec == DecSpecInit /\ [][Decide]_vars

\* the scanner over the outcomes of its fetches
ScanSpecInit == RestIdle /\ ConfIdle /\ DecIdle /\ ScanInit

ScanSpec == ScanSpecInit /\ [][Scan]_vars

\* load_day_trades over the files it can find
LoadSpecInit ==
  /\ LedgerInit
  /\ PriceIdle /\ impl = [s \in Sessions |-> "app"]
  /\ FreshIdle
  /\ GateIdle
  /\ ConfIdle /\ DecIdle /\ ScanIdle
  /\ LoadInit

LoadSpec == LoadSpecInit /\ [][Load]_vars

\* update_trade_in_csv over the files of a day: no file, or up to MaxRows
\* rows with the ids 0 and 1
UpdSpecInit ==
  /\ \/ csvExists = FALSE /\ csv = <<>>
     \/ /\ csvExists = TRUE
        /\ \E n \in 0..MaxRows :
             csv \in [1..n -> {ToCsvRow(trade_row(id, "INFY", side, 100000,
                                                   10)) :
                                 id \in {0, 1}, side \in Sides}]
  /\ clockMs = 0
  /\ stock = [s \in Sessions |-> NoStock]
  /\ last_price_metric = [s \in Sessions |-> NoneVal]
  /\ history = [s \in Sessions |-> <<>>]
  /\ trades = [s \in Sessions |-> 0]
  /\ pnl = [s \in Sessions |-> 0]
  /\ pc = [s \in Sessions |-> "idle"]
  /\ pend = [s \in Sessions |-> NoPend]
  /\ genAt = [s \in Sessions |-> -1]
  /\ PriceIdle /\ impl = [s \in Sessions |-> "app"]
  /\ FreshIdle
  /\ GateIdle
  /\ LogicIdle

UpdNext ==
  \/ \E trade_id \in 0..2, exit \in Prices :
       UpdateCall("s1", trade_id, exit, 5000)
  \/ UpdateWrite("s1")
  \/ Sync("s1")

UpdSpec == UpdSpecInit /\ [][UpdNext]_vars

====
